---------------------------- MODULE Spec2Model ----------------------------
(***************************************************************************)
(* A model of the CMIP6 parallel batch-download engine of                  *)
(* ee_download_async.py: the single-image fetcher download_cmip6_image,    *)
(* the batch orchestrator export_cmip6_collection_parallel and the         *)
(* per-variable driver getCMIP6_async.                                     *)
(*                                                                         *)
(* Strings are sequences of one-character strings, so that split,          *)
(* isdigit, strptime, strftime and the filename sanitisation are computed  *)
(* rather than assumed.  The event loop is cooperative: one action is the  *)
(* code that runs between two suspension points (await).                   *)
(***************************************************************************)
EXTENDS Integers, Sequences, FiniteSets, TLC

(***************************************************************************)
(* Bounds of the model.                                                    *)
(***************************************************************************)
MaxImages == 3
MaxConcurrent == 2
MaxBatchSize == 2
MaxRuns == 2
MaxDriverImages == 1
MaxLiveImages == 2

(***************************************************************************)
(* Program constants.                                                      *)
(***************************************************************************)
max_retries == 3
MinValidSize == 1024
DefaultBatchSize == 10
MsPerDay == 86400000

(***************************************************************************)
(* Characters and strings.                                                 *)
(***************************************************************************)
DigitChars == <<"0", "1", "2", "3", "4", "5", "6", "7", "8", "9">>

IsDigitChar(c) == \E k \in 1..10 : DigitChars[k] = c

DigitVal(c) == (CHOOSE k \in 1..10 : DigitChars[k] = c) - 1

\* str.isdigit(): non-empty and every character a digit
IsDigit(s) == Len(s) > 0 /\ \A k \in 1..Len(s) : IsDigitChar(s[k])

RECURSIVE ParseInt(_)
ParseInt(s) ==
    IF Len(s) = 0 THEN 0
    ELSE 10 * ParseInt(SubSeq(s, 1, Len(s) - 1)) + DigitVal(s[Len(s)])

\* str(n) for n >= 0
RECURSIVE Decimal(_)
Decimal(n) ==
    IF n < 10 THEN <<DigitChars[n + 1]>>
    ELSE Decimal(n \div 10) \o <<DigitChars[(n % 10) + 1]>>

\* zero-padded decimal of width w (strftime's %Y, %m, %d)
RECURSIVE Pad(_, _)
Pad(s, w) == IF Len(s) >= w THEN s ELSE Pad(<<"0">> \o s, w)

\* str.split(sep) for a one-character separator
RECURSIVE Split(_, _)
Split(s, sep) ==
    IF \A k \in 1..Len(s) : s[k] # sep THEN <<s>>
    ELSE LET k == CHOOSE j \in 1..Len(s) :
                     s[j] = sep /\ \A h \in 1..(j - 1) : s[h] # sep
         IN  <<SubSeq(s, 1, k - 1)>> \o Split(SubSeq(s, k + 1, Len(s)), sep)

\* str.replace(old, new) for one-character old and new
Replace(s, old, new) == [k \in 1..Len(s) |-> IF s[k] = old THEN new ELSE s[k]]

(***************************************************************************)
(* Calendar: datetime.fromtimestamp, datetime.strptime and strftime.       *)
(* A date is a record [y, m, d]; NoDate stands for date_str = None.        *)
(***************************************************************************)
NoDate == [y |-> 0, m |-> 0, d |-> 0]

IsLeap(y) == (y % 4 = 0 /\ y % 100 # 0) \/ y % 400 = 0

DaysInMonth(y, m) ==
    IF m = 2 THEN (IF IsLeap(y) THEN 29 ELSE 28)
    ELSE IF m \in {4, 6, 9, 11} THEN 30 ELSE 31

DaysInYear(y) == IF IsLeap(y) THEN 366 ELSE 365

RECURSIVE MonthDay(_, _, _)
MonthDay(y, m, rest) ==
    IF rest < DaysInMonth(y, m) THEN [y |-> y, m |-> m, d |-> rest + 1]
    ELSE MonthDay(y, m + 1, rest - DaysInMonth(y, m))

RECURSIVE CivilFromDays(_, _)
CivilFromDays(y, rest) ==
    IF rest < DaysInYear(y) THEN MonthDay(y, 1, rest)
    ELSE CivilFromDays(y + 1, rest - DaysInYear(y))

\* datetime.fromtimestamp(timestamp / 1000) for timestamp >= 0 (epoch
\* milliseconds), read in a zone of offset 0
FromTimestamp(timestamp) == CivilFromDays(1970, timestamp \div MsPerDay)

\* .strftime('%Y-%m-%d')
Strftime(date) ==
    Pad(Decimal(date.y), 4) \o <<"-">> \o Pad(Decimal(date.m), 2)
        \o <<"-">> \o Pad(Decimal(date.d), 2)

\* datetime.strptime(part, '%Y%m%d') of an 8-digit part: the date, or NoDate
\* where strptime raises ValueError
Strptime(part) ==
    LET y == ParseInt(SubSeq(part, 1, 4))
        m == ParseInt(SubSeq(part, 5, 6))
        d == ParseInt(SubSeq(part, 7, 8))
    IN  IF y >= 1 /\ m \in 1..12 /\ d >= 1 /\ d <= DaysInMonth(y, m)
        THEN [y |-> y, m |-> m, d |-> d]
        ELSE NoDate

(***************************************************************************)
(* Path planning (the body of the per-image loop of                        *)
(* export_cmip6_collection_parallel).  A record of the listing is          *)
(* [id, properties], properties a function on the property names present. *)
(***************************************************************************)
\* the date of the first part of the id that is 8 digits and parses
RECURSIVE DateFromParts(_)
DateFromParts(parts) ==
    IF Len(parts) = 0 THEN NoDate
    ELSE IF Len(Head(parts)) = 8 /\ IsDigit(Head(parts))
                /\ Strptime(Head(parts)) # NoDate
         THEN Strptime(Head(parts))
         ELSE DateFromParts(Tail(parts))

ExtractDate(img_info) ==
    LET properties == img_info.properties IN
    IF "system:time_start" \in DOMAIN properties
    THEN FromTimestamp(properties["system:time_start"])
    ELSE IF "system:index" \in DOMAIN properties
         THEN DateFromParts(Split(img_info.id, "_"))
         ELSE NoDate

\* n is batch_start + i
DateStr(img_info, n) ==
    IF ExtractDate(img_info) # NoDate
    THEN Strftime(ExtractDate(img_info))
    ELSE <<"i", "m", "a", "g", "e", "_">> \o Decimal(n)

ModelScenario(properties) ==
    IF "model" \in DOMAIN properties THEN properties["model"]
    ELSE IF "scenario" \in DOMAIN properties
         THEN <<"C", "M", "I", "P", "6", "_">> \o properties["scenario"]
         ELSE <<"C", "M", "I", "P", "6">>

Sanitize(filename) == Replace(Replace(filename, "/", "_"), ":", "_")

Filename(img_info, n) ==
    Sanitize(ModelScenario(img_info.properties) \o <<"_">>
                 \o DateStr(img_info, n) \o <<".", "t", "i", "f">>)

\* os.path.join(path, filename)
DownloadPath(path, img_info, n) == <<path, Filename(img_info, n)>>

(***************************************************************************)
(* The remote catalog.  Images of one model and day that differ only in    *)
(* the scenario are distinct records, as in NASA/GDDP-CMIP6.               *)
(***************************************************************************)
Img1 ==
    [id |-> <<"x", "_", "1", "9", "7", "0", "0", "1", "0", "1">>,
     properties |-> [p \in {"system:index", "scenario"} |->
                        IF p = "scenario" THEN <<"s">> ELSE <<"x">>]]

Img2 ==
    [id |-> <<"A", "_", "s", "s", "p", "2", "4", "5">>,
     properties |-> [p \in {"system:time_start", "model", "scenario"} |->
                        IF p = "system:time_start" THEN 0
                        ELSE IF p = "model" THEN <<"A">>
                        ELSE <<"s", "s", "p", "2", "4", "5">>]]

Img3 ==
    [id |-> <<"A", "_", "s", "s", "p", "5", "8", "5">>,
     properties |-> [p \in {"system:time_start", "model", "scenario"} |->
                        IF p = "system:time_start" THEN 43200000
                        ELSE IF p = "model" THEN <<"A">>
                        ELSE <<"s", "s", "p", "5", "8", "5">>]]

Img4 ==
    [id |-> <<"y", "_", "1", "9", "7", "0", "0", "1", "0", "2">>,
     properties |-> [p \in {} |-> 0]]

Catalog == <<Img1, Img2, Img3, Img4>>

\* the listings a collection may hold: runs of the catalog of bounded length
Listings ==
    {SubSeq(Catalog, w[1], w[1] + w[2] - 1) :
        w \in {v \in (1..Len(Catalog)) \X (0..MaxImages) :
                   v[1] + v[2] - 1 <= Len(Catalog)}}

\* the sizes a response body may have: empty, at the skip threshold, above it
ContentSizes == {0, MinValidSize, MinValidSize + 1}

(***************************************************************************)
(* State.                                                                  *)
(***************************************************************************)
VARIABLES
    coll,            \* the listing the remote collection holds
    path,            \* destination directory of the export
    max_concurrent,
    batch_size,
    fs,              \* the files that exist: download path -> size in bytes
    opc,             \* where export_cmip6_collection_parallel stands
    stats,           \* {'total', 'successful', 'failed'}
    images_info,     \* coll_info['features']
    batch_start,     \* 0-based, as in the code
    tasks,           \* the current batch's dispatched fetches
    semaphore,       \* the value of asyncio.Semaphore(max_concurrent)
    run,             \* how many times the export was called on this directory
    validAtCall,     \* at the call every record had a file above the threshold
    batches,         \* the slices processed so far, as <<batch_start, batch_end>>
    cooldowns,       \* completed or started asyncio.sleep(1) between batches
    fetched,         \* per listing position: invocations of download_cmip6_image
    counted,         \* per listing position: the outcomes folded into stats
    returns,         \* per listing position: what download_cmip6_image returned
    dpc,             \* where getCMIP6_async stands ("direct": export called alone)
    variables,       \* the `variables` argument (<<>> for None)
    catalog,         \* variable code -> the listing its query yields
    bands,           \* the keys of cmip6_bands after filtering, in order
    vi,              \* position in bands of the variable being processed
    all_stats,       \* variable code -> stats recorded
    pauses,          \* completed time.sleep(2) between variables
    outcomes         \* how each processed variable ended, in order

exportVars == <<opc, stats, images_info, batch_start, tasks, semaphore>>
histVars == <<run, validAtCall, batches, cooldowns, fetched, counted>>
callVars == <<coll, path, max_concurrent, batch_size>>
driverVars == <<dpc, variables, catalog, bands, vi, all_stats, pauses, outcomes>>
vars == <<callVars, fs, exportVars, histVars, returns, driverVars>>

NoFiles == [p \in {} |-> 0]

Exists(files, p) == p \in DOMAIN files

\* the path export computes for the record at 1-based listing position j
\* the filename of every catalog record at every position, computed once
FilenameOf ==
    [img_info \in {Catalog[k] : k \in DOMAIN Catalog}, n \in 0..MaxImages |->
        Filename(img_info, n)]

PlannedPath(dir, listing, j) == <<dir, FilenameOf[listing[j], j - 1]>>

\* SkipCheck with >= for >
SkipCheck_Inclusive(files, p) == Exists(files, p) /\ files[p] >= MinValidSize

\* SkipCheck with the threshold one byte too high
SkipCheck_OffByOne(files, p) ==
    Exists(files, p) /\ files[p] > MinValidSize + 1

\* the pre-check of lines 157-162: the file exists with a reasonable size
SkipCheck(files, p) == Exists(files, p) /\ files[p] > MinValidSize

\* every record of the listing has a file above 1024 bytes at its path
AllValid(files, dir, listing) ==
    \A j \in 1..Len(listing) :
        /\ PlannedPath(dir, listing, j) \in DOMAIN files
        /\ files[PlannedPath(dir, listing, j)] > 1024

ZeroStats == [total |-> 0, successful |-> 0, failed |-> 0]

NoStats == [v \in {} |-> ZeroStats]

\* cmip6_bands of lines 222-228, in insertion order
AllBands == <<"tas", "tasmin", "tasmax", "pr", "sfcWind">>

Range(seq) == {seq[k] : k \in 1..Len(seq)}

\* lines 231-241: the recognised variables in the order first requested;
\* with none requested or none recognised, every band
RECURSIVE Filtered(_)
Filtered(names) ==
    IF Len(names) = 0 THEN <<>>
    ELSE LET front == Filtered(SubSeq(names, 1, Len(names) - 1))
             var == names[Len(names)]
         IN  IF var \in Range(AllBands) /\ var \notin Range(front)
             THEN Append(front, var) ELSE front

SelectBands(names) ==
    IF Len(names) > 0 /\ Len(Filtered(names)) > 0
    THEN Filtered(names) ELSE AllBands

\* the `variables` arguments tried: None, recognised names, an unknown name
VariableArgs ==
    {<<>>, <<"tas">>, <<"pr", "tas">>, <<"tas", "zz">>, <<"zz">>}

EmptyCatalog == [v \in Range(AllBands) |-> <<>>]

\* the catalogs tried: at most one of "tas" and "pr" has images
Catalogs ==
    {EmptyCatalog} \cup
    {[EmptyCatalog EXCEPT ![v] = l] :
        v \in {"tas", "pr"},
        l \in {m \in Listings : Len(m) \in 1..MaxDriverImages}}

\* export_cmip6_collection_parallel called on its own
InitDirect ==
    /\ coll \in Listings
    /\ path = "dir"
    /\ max_concurrent \in 1..MaxConcurrent
    /\ batch_size \in 1..MaxBatchSize
    /\ opc = "call"
    /\ validAtCall = AllValid(NoFiles, "dir", coll)
    /\ dpc = "direct"
    /\ variables = <<>>
    /\ catalog = EmptyCatalog
    /\ bands = <<>>

\* getCMIP6_async at line 256, before the first variable
InitDriver ==
    /\ coll = <<>>
    /\ path = "home"
    /\ max_concurrent \in 1..MaxConcurrent
    /\ batch_size = DefaultBatchSize
    /\ opc = "idle"
    /\ validAtCall = FALSE
    /\ dpc = "loop"
    /\ variables \in VariableArgs
    /\ catalog \in Catalogs
    /\ bands = SelectBands(variables)

Init ==
    /\ InitDirect \/ InitDriver
    /\ fs = NoFiles
    /\ stats = ZeroStats
    /\ images_info = <<>>
    /\ batch_start = 0
    /\ tasks = <<>>
    /\ semaphore = 0
    /\ run = 1
    /\ batches = <<>>
    /\ cooldowns = 0
    /\ fetched = <<>>
    /\ counted = <<>>
    /\ returns = <<>>
    /\ vi = 1
    /\ all_stats = NoStats
    /\ pauses = 0
    /\ outcomes = <<>>

(***************************************************************************)
(* export_cmip6_collection_parallel.                                       *)
(***************************************************************************)
Min(a, b) == IF a <= b THEN a ELSE b

Max(a, b) == IF a >= b THEN a ELSE b

\* BatchEnd one record short
BatchEnd_Short == Min(batch_start + batch_size - 1, stats.total)

\* line 109
BatchEnd == Min(batch_start + batch_size, stats.total)

NewTask(j, p) ==
    [idx |-> j, download_path |-> p, st |-> "pending", retry |-> 0,
     attempts |-> 0, delays |-> <<>>, last |-> "none", result |-> "None"]

\* BuildTasks without the continue of line 162: a skipped record is counted
\* and gets a task as well
BuildTasks_NoContinue(files, dir, j0, j1) ==
    [k \in 1..(j1 - j0 + 1) |->
        NewTask(j0 + k - 1, PlannedPath(dir, images_info, j0 + k - 1))]

\* the tasks list built by the loop of lines 117-167 over the listing
\* positions j0..j1: one coroutine per record that is not skipped
RECURSIVE BuildTasks(_, _, _, _)
BuildTasks(files, dir, j0, j1) ==
    IF j0 > j1 THEN <<>>
    ELSE (IF SkipCheck(files, PlannedPath(dir, images_info, j0))
          THEN <<>>
          ELSE <<NewTask(j0, PlannedPath(dir, images_info, j0))>>)
         \o BuildTasks(files, dir, j0 + 1, j1)

Skipped(files, dir, j0, j1) ==
    {j \in j0..j1 : SkipCheck(files, PlannedPath(dir, images_info, j))}

\* AfterBatch without the test of line 192: it sleeps after the last batch too
AfterBatch_AlwaysSleep ==
    /\ cooldowns' = cooldowns + 1
    /\ opc' = IF BatchEnd < stats.total THEN "cooldown" ELSE "returned"

\* lines 191-195: sleep before the next batch, or return after the last
AfterBatch ==
    IF BatchEnd < stats.total
    THEN /\ opc' = "cooldown"
         /\ cooldowns' = cooldowns + 1
    ELSE /\ opc' = "returned"
         /\ cooldowns' = cooldowns

\* lines 95-99, coll.getInfo() raises: caught at line 197, stats returned
GetInfoRaises ==
    /\ opc = "call"
    /\ opc' = "returned"
    /\ UNCHANGED <<callVars, driverVars, fs, stats, images_info, batch_start, tasks,
                   semaphore, histVars, returns>>

\* AfterListing without the early return
AfterListing_NoReturn(total) == "prepare"

\* lines 103-108: with no image the stats are returned, else the first batch
AfterListing(total) == IF total = 0 THEN "returned" ELSE "prepare"

\* lines 95-105: read the listing; an empty listing returns at once
GetCollInfo ==
    /\ opc = "call"
    /\ images_info' = coll
    /\ stats' = [stats EXCEPT !.total = Len(coll)]
    /\ opc' = AfterListing(Len(coll))
    /\ fetched' = [j \in 1..Len(coll) |-> 0]
    /\ counted' = [j \in 1..Len(coll) |-> <<>>]
    /\ returns' = [j \in 1..Len(coll) |-> <<>>]
    /\ UNCHANGED <<callVars, driverVars, fs, batch_start, tasks, semaphore, run,
                   validAtCall, batches, cooldowns>>

\* lines 108-179: plan the slice, count the skips, create the semaphore and
\* hand the remaining tasks to gather; with no task left, lines 191-195
PrepareBatch ==
    /\ opc = "prepare"
    /\ LET j0 == batch_start + 1
           j1 == BatchEnd
           skipped == Skipped(fs, path, j0, j1)
       IN  /\ tasks' = BuildTasks(fs, path, j0, j1)
           /\ stats' = [stats EXCEPT
                            !.successful = @ + Cardinality(skipped)]
           /\ counted' = [j \in DOMAIN counted |->
                             IF j \in skipped
                             THEN Append(counted[j], "skipped")
                             ELSE counted[j]]
           /\ batches' = Append(batches, <<batch_start, BatchEnd>>)
           /\ semaphore' = max_concurrent
           /\ IF tasks' # <<>>
              THEN opc' = "gather" /\ cooldowns' = cooldowns
              ELSE AfterBatch
    /\ UNCHANGED <<callVars, driverVars, fs, images_info, batch_start, run, validAtCall,
                   fetched, returns>>

\* Outcome without the else branch of lines 188-189
Outcome_DropFalse(result) ==
    IF result = "Exception" THEN "failed"
    ELSE IF result = "True" THEN "successful"
    ELSE "dropped"

\* lines 182-189: how one result of gather is counted
Outcome(result) ==
    IF result = "Exception" THEN "failed"
    ELSE IF result = "True" THEN "successful"
    ELSE "failed"

\* CountOf raising a counter by one when some result is of the kind
CountOf_Flag(kind) ==
    IF \E t \in DOMAIN tasks : Outcome(tasks[t].result) = kind THEN 1 ELSE 0

CountOf(kind) ==
    Cardinality({t \in DOMAIN tasks : Outcome(tasks[t].result) = kind})

\* AllSettled returning at the first task that has returned
AllSettled_First == \E t \in DOMAIN tasks : tasks[t].st = "done"

\* line 179: gather returns when every task of the batch has returned
AllSettled == \A t \in DOMAIN tasks : tasks[t].st = "done"

\* lines 179-195: gather has every result; fold them, then sleep or return
GatherDone ==
    /\ opc = "gather"
    /\ AllSettled
    /\ stats' = [stats EXCEPT !.successful = @ + CountOf("successful"),
                              !.failed = @ + CountOf("failed")]
    /\ counted' = [j \in DOMAIN counted |->
                      IF \E t \in DOMAIN tasks : tasks[t].idx = j
                      THEN LET t == CHOOSE u \in DOMAIN tasks :
                                        tasks[u].idx = j
                           IN  Append(counted[j], Outcome(tasks[t].result))
                      ELSE counted[j]]
    /\ AfterBatch
    /\ UNCHANGED <<callVars, driverVars, fs, images_info, batch_start, tasks, semaphore,
                   run, validAtCall, batches, fetched, returns>>

\* line 193 returns: the loop of line 108 moves to the next slice
Cooldown ==
    /\ opc = "cooldown"
    /\ batch_start' = batch_start + batch_size
    /\ opc' = "prepare"
    /\ UNCHANGED <<callVars, driverVars, fs, stats, images_info, tasks, semaphore,
                   histVars, returns>>

\* line 93 and the instrumentation of a fresh call
EnterExport ==
    /\ opc' = "call"
    /\ stats' = ZeroStats
    /\ images_info' = <<>>
    /\ batch_start' = 0
    /\ tasks' = <<>>
    /\ semaphore' = 0
    /\ batches' = <<>>
    /\ cooldowns' = 0
    /\ fetched' = <<>>
    /\ counted' = <<>>
    /\ returns' = <<>>

\* the export is called again on the same collection and directory
Rerun ==
    /\ dpc = "direct"
    /\ opc = "returned"
    /\ run < MaxRuns
    /\ EnterExport
    /\ run' = run + 1
    /\ validAtCall' = AllValid(fs, path, coll)
    /\ UNCHANGED <<callVars, driverVars, fs>>

(***************************************************************************)
(* download_with_semaphore and download_cmip6_image.  A task is            *)
(*   pending : waiting in "async with semaphore"                           *)
(*   get     : attempt `retry` awaits session.get(url)                     *)
(*   read    : status 200, the file is opened 'wb', awaits response.read() *)
(*   sleep   : awaits asyncio.sleep(2 ** retry) after a failed attempt     *)
(*   done    : returned; the permit is released                            *)
(***************************************************************************)
InFlight == {t \in DOMAIN tasks : tasks[t].st \in {"get", "read", "sleep"}}

\* Backoff with 2 * retry for 2 ** retry
Backoff_Linear(retry) == 2 * retry

\* asyncio.sleep(2 ** retry) of lines 64 and 69
Backoff(retry) == 2 ^ retry

\* AfterFailure with the retry bound off by one: a fourth attempt
AfterFailure_ExtraAttempt(task, kind) ==
    IF task.retry < max_retries
    THEN [task EXCEPT !.st = "sleep", !.last = kind,
                      !.delays = Append(@, 2 ^ task.retry)]
    ELSE [task EXCEPT !.st = "done", !.last = kind, !.result = "False"]

\* lines 57-71: what follows an attempt that failed in the way `kind`
AfterFailure(task, kind) ==
    IF task.retry < max_retries - 1
    THEN [task EXCEPT !.st = "sleep", !.last = kind,
                      !.delays = Append(@, Backoff(task.retry))]
    ELSE [task EXCEPT !.st = "done", !.last = kind, !.result = "False"]

\* Release giving the permit back only when the fetch succeeded
Release_OnSuccess(before, after) ==
    IF before.st # "done" /\ after.st = "done" /\ after.result = "True"
    THEN semaphore + 1 ELSE semaphore

\* Release that never gives the permit back
Release_Never(before, after) == semaphore

\* "async with semaphore" releases when the task has returned
Release(before, after) ==
    IF before.st # "done" /\ after.st = "done"
    THEN semaphore + 1 ELSE semaphore

Settle(t, after) ==
    /\ tasks' = [tasks EXCEPT ![t] = after]
    /\ semaphore' = Release(tasks[t], after)
    /\ returns' = IF tasks[t].st # "done" /\ after.st = "done"
                  THEN [returns EXCEPT ![after.idx] = Append(@, after.result)]
                  ELSE returns

\* MayAcquire without the wait for a permit
MayAcquire_NoGate(t) ==
    /\ tasks[t].st = "pending"
    /\ \A u \in 1..(t - 1) : tasks[u].st # "pending"

\* the semaphore wakes its waiters in the order they arrived, which is the
\* order gather scheduled them in
MayAcquire(t) ==
    /\ tasks[t].st = "pending"
    /\ semaphore > 0
    /\ \A u \in 1..(t - 1) : tasks[u].st # "pending"

\* lines 173-174 and 25-46: the permit is taken, the metadata and the
\* download URL are resolved and the first attempt is issued
StartFetch(t) ==
    /\ opc = "gather"
    /\ MayAcquire(t)
    /\ tasks' = [tasks EXCEPT ![t] = [@ EXCEPT !.st = "get", !.attempts = 1]]
    /\ semaphore' = semaphore - 1
    /\ fetched' = [fetched EXCEPT ![tasks[t].idx] = @ + 1]
    /\ UNCHANGED <<callVars, driverVars, fs, opc, stats, images_info, batch_start, run,
                   validAtCall, batches, cooldowns, counted, returns>>

\* ResolveFails handled as a failed attempt of the retry loop: the permit is
\* kept, the task sleeps and tries again
ResolveFails_Retried(t) ==
    /\ opc = "gather"
    /\ MayAcquire(t)
    /\ tasks' = [tasks EXCEPT ![t] = AfterFailure(tasks[t], "resolve")]
    /\ semaphore' = semaphore - 1
    /\ fetched' = [fetched EXCEPT ![tasks[t].idx] = @ + 1]
    /\ UNCHANGED <<callVars, driverVars, fs, opc, stats, images_info, batch_start,
                   run, validAtCall, batches, cooldowns, counted, returns>>

\* lines 173-174, 25-37 and 75-77: getInfo or getDownloadURL raises; the
\* fetcher returns False and the permit taken is given back
ResolveFails(t) ==
    /\ opc = "gather"
    /\ MayAcquire(t)
    /\ tasks' = [tasks EXCEPT ![t] =
                    [@ EXCEPT !.st = "done", !.last = "resolve",
                              !.result = "False"]]
    /\ returns' = [returns EXCEPT ![tasks[t].idx] = Append(@, "False")]
    /\ fetched' = [fetched EXCEPT ![tasks[t].idx] = @ + 1]
    /\ UNCHANGED <<callVars, driverVars, fs, opc, stats, images_info, batch_start,
                   semaphore, run, validAtCall, batches, cooldowns, counted>>

\* lines 46-47 and 66-71: the request raises (timeout, connection error)
GetRaises(t) ==
    /\ opc = "gather"
    /\ tasks[t].st = "get"
    /\ Settle(t, AfterFailure(tasks[t], "raise"))
    /\ UNCHANGED <<callVars, driverVars, fs, opc, stats, images_info, batch_start,
                   histVars>>

\* GetNon200 opening the file before it looks at the status
GetNon200_Truncates(t) ==
    /\ opc = "gather"
    /\ tasks[t].st = "get"
    /\ fs' = (tasks[t].download_path :> 0) @@ fs
    /\ Settle(t, AfterFailure(tasks[t], "status"))
    /\ UNCHANGED <<callVars, driverVars, opc, stats, images_info, batch_start,
                   histVars>>

\* lines 47-48 and 59-64: a response whose status is not 200
GetNon200(t) ==
    /\ opc = "gather"
    /\ tasks[t].st = "get"
    /\ Settle(t, AfterFailure(tasks[t], "status"))
    /\ UNCHANGED <<callVars, driverVars, fs, opc, stats, images_info, batch_start,
                   histVars>>

\* lines 47-50: status 200; open(download_path, 'wb') creates or truncates
\* the file, then the body is awaited
Get200(t) ==
    /\ opc = "gather"
    /\ tasks[t].st = "get"
    /\ fs' = (tasks[t].download_path :> 0) @@ fs
    /\ tasks' = [tasks EXCEPT ![t] = [@ EXCEPT !.st = "read"]]
    /\ UNCHANGED <<callVars, driverVars, opc, stats, images_info, batch_start,
                   semaphore, histVars, returns>>

\* lines 50 and 66-71: reading the body raises; the opened file is closed
ReadRaises(t) ==
    /\ opc = "gather"
    /\ tasks[t].st = "read"
    /\ Settle(t, AfterFailure(tasks[t], "raise"))
    /\ UNCHANGED <<callVars, driverVars, fs, opc, stats, images_info, batch_start,
                   histVars>>

\* the size of a file after `size` bytes were written from offset 0
Written(files, p, size) ==
    (p :> Max(IF Exists(files, p) THEN files[p] ELSE 0, size)) @@ files

\* lines 50-58: the body arrives and is written; the attempt succeeds when
\* the file exists and is not empty
ReadBody(t, size) ==
    /\ opc = "gather"
    /\ tasks[t].st = "read"
    /\ fs' = Written(fs, tasks[t].download_path, size)
    /\ IF Exists(fs', tasks[t].download_path)
            /\ fs'[tasks[t].download_path] > 0
       THEN Settle(t, [tasks[t] EXCEPT !.st = "done", !.last = "ok",
                                       !.result = "True"])
       ELSE Settle(t, AfterFailure(tasks[t], "empty"))
    /\ UNCHANGED <<callVars, driverVars, opc, stats, images_info, batch_start, histVars>>

\* lines 64 and 69 return: the loop of line 44 starts the next attempt
Retry(t) ==
    /\ opc = "gather"
    /\ tasks[t].st = "sleep"
    /\ tasks' = [tasks EXCEPT ![t] =
                    [@ EXCEPT !.st = "get", !.retry = @ + 1,
                              !.attempts = @ + 1, !.last = "none"]]
    /\ UNCHANGED <<callVars, driverVars, fs, opc, stats, images_info, batch_start,
                   semaphore, histVars, returns>>

(***************************************************************************)
(* getCMIP6_async: the loop of line 256 over the selected variables.       *)
(***************************************************************************)
var_code == bands[vi]

\* Record replacing the dictionary by the one entry
Record_Replace(v, st) == (v :> st)

\* all_stats[var_code] = ...
Record(v, st) == (v :> st) @@ all_stats

\* lines 261-279 raise (the catalog query, makedirs): lines 315-320
VariableRaises ==
    /\ dpc = "loop"
    /\ vi <= Len(bands)
    /\ all_stats' = Record(var_code, ZeroStats)
    /\ outcomes' = Append(outcomes, "error")
    /\ dpc' = "pause"
    /\ UNCHANGED <<callVars, fs, exportVars, histVars, returns, variables,
                   catalog, bands, vi, pauses>>

\* lines 269-275: count == 0; zero stats are recorded and the loop continues
VariableEmpty ==
    /\ dpc = "loop"
    /\ vi <= Len(bands)
    /\ Len(catalog[var_code]) = 0
    /\ all_stats' = Record(var_code, ZeroStats)
    /\ outcomes' = Append(outcomes, "empty")
    /\ vi' = vi + 1
    /\ UNCHANGED <<callVars, fs, exportVars, histVars, returns, dpc,
                   variables, catalog, bands, pauses>>

\* lines 269-300: count > 0; the export is run on the variable's directory
\* with the default batch size
StartExport ==
    /\ dpc = "loop"
    /\ vi <= Len(bands)
    /\ Len(catalog[var_code]) > 0
    /\ coll' = catalog[var_code]
    /\ path' = var_code
    /\ EnterExport
    /\ run' = 1
    /\ validAtCall' = AllValid(fs, var_code, catalog[var_code])
    /\ dpc' = "export"
    /\ UNCHANGED <<max_concurrent, batch_size, fs, variables, catalog, bands,
                   vi, all_stats, pauses, outcomes>>

\* lines 298-313: run_until_complete returns the stats
ExportReturns ==
    /\ dpc = "export"
    /\ opc = "returned"
    /\ all_stats' = Record(var_code, stats)
    /\ outcomes' = Append(outcomes, "downloaded")
    /\ dpc' = "pause"
    /\ UNCHANGED <<callVars, fs, exportVars, histVars, returns, variables,
                   catalog, bands, vi, pauses>>

\* line 320: time.sleep(2), then the next variable
Pause ==
    /\ dpc = "pause"
    /\ pauses' = pauses + 1
    /\ vi' = vi + 1
    /\ dpc' = "loop"
    /\ UNCHANGED <<callVars, fs, exportVars, histVars, returns, variables,
                   catalog, bands, all_stats, outcomes>>

\* lines 322-340: every variable is processed; the summary is returned
Summary ==
    /\ dpc = "loop"
    /\ vi > Len(bands)
    /\ dpc' = "done"
    /\ UNCHANGED <<callVars, fs, exportVars, histVars, returns, variables,
                   catalog, bands, vi, all_stats, pauses, outcomes>>

Next ==
    \/ GetInfoRaises
    \/ GetCollInfo
    \/ PrepareBatch
    \/ \E t \in DOMAIN tasks : StartFetch(t)
    \/ \E t \in DOMAIN tasks : ResolveFails(t)
    \/ \E t \in DOMAIN tasks : GetRaises(t)
    \/ \E t \in DOMAIN tasks : GetNon200(t)
    \/ \E t \in DOMAIN tasks : Get200(t)
    \/ \E t \in DOMAIN tasks : ReadRaises(t)
    \/ \E t \in DOMAIN tasks : \E size \in ContentSizes : ReadBody(t, size)
    \/ \E t \in DOMAIN tasks : Retry(t)
    \/ GatherDone
    \/ Cooldown
    \/ Rerun
    \/ VariableRaises
    \/ VariableEmpty
    \/ StartExport
    \/ ExportReturns
    \/ Pause
    \/ Summary

Spec == Init /\ [][Next]_vars

\* the event loop runs a callback that is ready, a request ends in a response
\* or an error (ClientTimeout(total=300)), a sleep elapses and the caller
\* goes on: the program takes a step while one is possible
\* (checked on listings of at most MaxLiveImages records, and on driver
\* calls that select some of the variables)
InitLive ==
    /\ Init
    /\ Len(coll) <= MaxLiveImages
    /\ dpc = "loop" => Len(bands) < Len(AllBands)

SpecLive == InitLive /\ [][Next]_vars /\ WF_vars(Next)

(***************************************************************************)
(* Properties.                                                             *)
(***************************************************************************)
Positions == DOMAIN fetched

LastBatch == batches[Len(batches)]

\* the listing positions of the slice being processed (1-based)
CurrentSlice == (LastBatch[1] + 1)..LastBatch[2]

TaskOf(j) == {t \in DOMAIN tasks : tasks[t].idx = j}

\* a file above the skip threshold exists at p
LargeFile(p) == p \in DOMAIN fs /\ fs[p] > 1024

\* C1: at every point of an export, the fetches that have started and not
\* yet returned number at most max_concurrent.
C1_ConcurrencyBound == Cardinality(InFlight) <= max_concurrent

\* the gate is full and holds a task of the batch back
C1_Witness ==
    /\ opc = "gather"
    /\ Cardinality(InFlight) = max_concurrent
    /\ \E t \in DOMAIN tasks : tasks[t].st = "pending"

\* C2: once a batch is completed, successful + failed is the number of
\* records of the slices processed so far, every record of them counted
\* once; when the export returns after its last batch, successful + failed
\* is total.
C2_Conservation ==
    /\ (opc \in {"cooldown", "returned"} /\ batches # <<>>) =>
          /\ stats.successful + stats.failed = LastBatch[2]
          /\ \A j \in 1..LastBatch[2] : Len(counted[j]) = 1
    /\ (opc = "returned" /\ stats.total > 0) =>
          stats.successful + stats.failed = stats.total

\* an export of three records returned with a skip, a success and a failure
C2_Witness ==
    /\ opc = "returned"
    /\ stats.total = 3
    /\ \E i, j, k \in Positions :
          /\ counted[i] = <<"skipped">>
          /\ counted[j] = <<"successful">>
          /\ counted[k] = <<"failed">>

\* C3: a second export over a listing whose every record has, from the
\* first, a file above 1024 bytes at its path invokes no fetch and returns
\* successful = total, failed = 0.
C3_Idempotence ==
    (run >= 2 /\ validAtCall) =>
        /\ tasks = <<>>
        /\ \A j \in Positions : fetched[j] = 0
        /\ opc = "returned" =>
              /\ stats.successful = stats.total
              /\ stats.failed = 0
              /\ images_info = coll => stats.successful = Len(coll)

\* a second run over two batches of valid files has returned
C3_Witness ==
    /\ run = 2
    /\ validAtCall
    /\ opc = "returned"
    /\ stats.successful >= 2
    /\ Len(batches) >= 2

\* C4: a fetch makes at most 3 attempts; a failed attempt of any kind is
\* followed by a further one while fewer than 3 were made; the first
\* attempt with status 200 and a non-empty file returns True and ends the
\* fetch; three failed attempts return False, never an exception; the
\* record of a fetch that failed three times is counted failed once.
C4_RetryBudget ==
    \A t \in DOMAIN tasks :
        LET task == tasks[t] IN
        /\ task.attempts <= 3
        /\ task.result \in {"None", "True", "False"}
        /\ task.st = "done" <=> task.result # "None"
        /\ task.last = "ok" <=> task.result = "True"
        /\ (task.last \in {"status", "raise", "empty"} /\ task.attempts < 3)
              => task.st = "sleep"
        /\ task.st = "sleep" => task.attempts < 3
        /\ (task.result = "False" /\ task.last # "resolve")
              => task.attempts = 3
        /\ (task.result = "False" /\ opc \in {"cooldown", "returned"})
              => counted[task.idx] = <<"failed">>

\* a fetch whose third attempt got a non-200 status is counted failed
C4_Witness ==
    \E t \in DOMAIN tasks :
        /\ tasks[t].last = "status"
        /\ tasks[t].attempts = 3
        /\ tasks[t].result = "False"
        /\ counted[tasks[t].idx] = <<"failed">>

\* C5: the waits of a fetch are 1 s after the first failed attempt and 2 s
\* after the second, whatever the kind of failure; there is one wait per
\* failed attempt that is followed by another, so none after the third.
C5_Backoff ==
    \A t \in DOMAIN tasks :
        LET task == tasks[t] IN
        /\ Len(task.delays) <= 2
        /\ task.delays = SubSeq(<<1, 2>>, 1, Len(task.delays))
        /\ task.st = "sleep" => Len(task.delays) = task.attempts
        /\ (task.st \in {"get", "read"} \/ task.last = "ok")
              => Len(task.delays) = task.attempts - 1
        /\ (task.result = "False" /\ task.last # "resolve")
              => task.delays = <<1, 2>>

\* a fetch failed for good after waiting 1 s and 2 s, the last failure raised
C5_Witness ==
    \E t \in DOMAIN tasks :
        /\ tasks[t].result = "False"
        /\ tasks[t].last = "raise"
        /\ tasks[t].delays = <<1, 2>>

\* the state the pre-check of the current slice saw: its batch is planned
\* and none of its fetches has started
Planned ==
    /\ batches # <<>>
    /\ opc \in {"gather", "cooldown", "returned"}
    /\ \A t \in DOMAIN tasks : tasks[t].st = "pending"

\* C6: a record is skipped exactly when a file above 1024 bytes exists at
\* its path at the pre-check; a skipped record is counted successful once
\* and never fetched; any other record is dispatched and fetched once.
C6_SkipPrecheck ==
    /\ Planned =>
          \A j \in CurrentSlice :
              IF LargeFile(PlannedPath(path, images_info, j))
              THEN counted[j] = <<"skipped">> /\ TaskOf(j) = {}
              ELSE counted[j] = <<>> /\ Cardinality(TaskOf(j)) = 1
    /\ \A j \in Positions :
          /\ fetched[j] <= 1
          /\ (\E k \in 1..Len(counted[j]) : counted[j][k] = "skipped") =>
                (counted[j] = <<"skipped">> /\ fetched[j] = 0
                    /\ TaskOf(j) = {})
          /\ \A t \in TaskOf(j) :
                fetched[j] = IF tasks[t].st = "pending" THEN 0 ELSE 1
    /\ (opc = "returned" /\ stats.total > 0) =>
          \A j \in Positions : counted[j] = <<"skipped">> \/ fetched[j] = 1

\* one slice holds a record skipped for its large file and a record
\* dispatched although a file of exactly 1024 bytes exists
C6_Witness ==
    /\ Planned
    /\ \E i, j \in CurrentSlice :
          /\ counted[i] = <<"skipped">>
          /\ TaskOf(j) # {}
          /\ PlannedPath(path, images_info, j) \in DOMAIN fs
          /\ fs[PlannedPath(path, images_info, j)] = 1024

\* C7: no two tasks dispatched in one batch have the same destination path.
C7_DistinctPaths ==
    \A t, u \in DOMAIN tasks :
        t # u => tasks[t].download_path # tasks[u].download_path

\* C8: the batches are the consecutive slices of batch_size records in
\* listing order, the last one possibly shorter, ceil(total / batch_size)
\* of them at the return; when every fetch returned True the stats are
\* {total, successful: total, failed: 0}.
C8_BatchPartition ==
    /\ \A i \in 1..Len(batches) :
          /\ batches[i][1] = (i - 1) * batch_size
          /\ batches[i][2] = IF i * batch_size <= stats.total
                              THEN i * batch_size ELSE stats.total
          /\ batches[i][2] > batches[i][1]
          /\ i < Len(batches) => batches[i][2] - batches[i][1] = batch_size
    /\ (opc = "returned" /\ stats.total > 0) =>
          /\ Len(batches) = (stats.total + batch_size - 1) \div batch_size
          /\ batches[Len(batches)][2] = stats.total
    /\ (opc = "returned" /\ stats.total > 0
            /\ \A j \in Positions : \A k \in 1..Len(returns[j]) :
                   returns[j][k] = "True") =>
          stats = [total |-> Len(coll), successful |-> Len(coll), failed |-> 0]

\* three records in batches of two, every fetch successful
C8_Witness ==
    /\ opc = "returned"
    /\ batch_size = 2
    /\ batches = <<(<<0, 2>>), (<<2, 3>>)>>
    /\ \A j \in 1..3 : returns[j] = <<"True">>
    /\ stats = [total |-> 3, successful |-> 3, failed |-> 0]

\* C9: an export over an empty listing returns {0, 0, 0} at once, with no
\* batch, no fetch and no cooldown; the driver records zero stats for a
\* variable without images and does not run the export for it.
C9_EmptyListing ==
    /\ Len(coll) = 0 =>
          /\ opc \in {"idle", "call", "returned"}
          /\ stats = [total |-> 0, successful |-> 0, failed |-> 0]
          /\ batches = <<>>
          /\ cooldowns = 0
          /\ tasks = <<>>
          /\ fetched = <<>>
    /\ \A v \in DOMAIN all_stats :
          Len(catalog[v]) = 0 =>
              all_stats[v] = [total |-> 0, successful |-> 0, failed |-> 0]
    /\ dpc = "export" => Len(catalog[bands[vi]]) > 0

\* an export called on an empty collection has returned
C9_Witness ==
    /\ dpc = "direct"
    /\ coll = <<>>
    /\ opc = "returned"
    /\ stats.total = 0

\* C10: while a batch is processed no record of a later slice is
\* pre-checked or fetched, and when the next batch starts every fetch of
\* the earlier slices has returned and every record of them is counted.
C10_BatchSequencing ==
    /\ \A j \in Positions :
          /\ (batches = <<>> \/ j > batches[Len(batches)][2]) =>
                (fetched[j] = 0 /\ counted[j] = <<>> /\ returns[j] = <<>>)
          /\ (batches # <<>> /\ j <= batches[Len(batches)][1]) =>
                (Len(counted[j]) = 1 /\ fetched[j] = Len(returns[j]))
    /\ batches # <<>> => \A t \in DOMAIN tasks : tasks[t].idx \in CurrentSlice
    /\ opc = "prepare" =>
          /\ \A t \in DOMAIN tasks : tasks[t].st = "done"
          /\ \A j \in 1..batch_start :
                Len(counted[j]) = 1 /\ fetched[j] = Len(returns[j])

\* the second batch is fetching after a first batch that fetched
C10_Witness ==
    /\ Len(batches) = 2
    /\ opc = "gather"
    /\ InFlight # {}
    /\ returns[1] # <<>>
    /\ Positions \ (1..batches[2][2]) # {}

\* C11: whenever a task of a batch has not returned (it waits for a permit or
\* its fetch is under way), the batch eventually completes with every task
\* returned, a task returning only after it took a permit; and every export
\* that was entered eventually returns.
C11_GateLiveness ==
    /\ (\E t \in DOMAIN tasks : tasks[t].st # "done")
           ~> (/\ opc \in {"cooldown", "returned"}
               /\ \A t \in DOMAIN tasks : tasks[t].st = "done")
    /\ (opc \in {"call", "prepare", "gather", "cooldown"}) ~> (opc = "returned")

\* an export returned after a batch in which a task waited for the only
\* permit and in which one fetch failed and one succeeded
C11_Witness ==
    /\ opc = "returned"
    /\ max_concurrent = 1
    /\ Len(tasks) = 2
    /\ tasks[1].result = "False"
    /\ tasks[2].result = "True"

\* C12: a task that returned False, and a result that is an exception, is
\* counted failed, once; what is counted for a record is what its own task
\* returned (a skip when it had no task), whatever the other tasks of the
\* batch returned; an export that returned counted every record it listed.
C12_FailureContainment ==
    /\ Outcome("Exception") = "failed"
    /\ \A j \in Positions :
          /\ Len(returns[j]) <= 1
          /\ counted[j] # <<>> =>
                counted[j] = (IF returns[j] = <<>> THEN <<"skipped">>
                              ELSE IF returns[j] = <<"True">>
                                   THEN <<"successful">>
                                   ELSE <<"failed">>)
    /\ stats.failed =
          Cardinality({j \in Positions :
                          returns[j] = <<"False">> /\ counted[j] # <<>>})
    /\ opc = "returned" =>
          \A j \in 1..Len(images_info) :
              j \in Positions /\ Len(counted[j]) = 1

\* a completed batch in which one task failed next to one that succeeded
C12_Witness ==
    /\ opc \in {"cooldown", "returned"}
    /\ batches # <<>>
    /\ stats.failed = 1
    /\ \E i, j \in CurrentSlice :
          /\ returns[i] = <<"False">> /\ counted[i] = <<"failed">>
          /\ returns[j] = <<"True">> /\ counted[j] = <<"successful">>

\* the variables the call selects: the recognized ones among those asked
\* for, every known one when none of those asked for is recognized
Known == {"tas", "tasmin", "tasmax", "pr", "sfcWind"}

Asked == {variables[k] : k \in DOMAIN variables} \cap Known

Selected == IF Asked = {} THEN Known ELSE Asked

\* C13: a variable whose processing raised has an entry with successful = 0
\* and the loop goes on to the variables after it; when the driver returns,
\* every selected variable has been processed and has its entry, and no
\* other entry exists.
C13_VariableIsolation ==
    /\ \A k \in DOMAIN outcomes :
          /\ bands[k] \in DOMAIN all_stats
          /\ outcomes[k] = "error" => all_stats[bands[k]].successful = 0
    /\ dpc = "done" =>
          /\ Len(outcomes) = Len(bands)
          /\ DOMAIN all_stats = Selected
          /\ Cardinality(Selected) = Len(bands)

\* the driver returned after the first of two variables raised and the
\* second one was downloaded
C13_Witness ==
    /\ dpc = "done"
    /\ outcomes = <<"error", "downloaded">>
    /\ all_stats[bands[2]].successful = 1

\* the three counters of a stats record are consistent
StatsOk(st) ==
    /\ st.total >= 0 /\ st.successful >= 0 /\ st.failed >= 0
    /\ st.successful + st.failed <= st.total

\* C14: in every state of an export successful + failed <= total and no
\* counter is negative; total is the length of the listing from the moment
\* the listing is read; every entry of all_stats satisfies the same bounds.
C14_StatsInvariant ==
    /\ StatsOk(stats)
    /\ stats.total = Len(images_info)
    /\ \A v \in DOMAIN all_stats : StatsOk(all_stats[v])

\* an export is under way in a later batch, with records of an earlier batch
\* counted, one of them failed, and others not yet counted
C14_Witness ==
    /\ opc = "gather"
    /\ stats.successful + stats.failed > 0
    /\ stats.successful + stats.failed < stats.total
    /\ stats.failed > 0

\* C15: every variable the driver has finished, whether it was downloaded,
\* had an empty listing or raised, was followed by one time.sleep(2) before
\* the catalog query of the next variable; one variable is processed at a
\* time.
C15_InterVariableCooldown ==
    /\ dpc \in {"loop", "export", "done"} =>
          /\ pauses = Len(outcomes)
          /\ vi = Len(outcomes) + 1
    /\ dpc = "pause" =>
          /\ pauses = Len(outcomes) - 1
          /\ vi = Len(outcomes)
    /\ dpc = "export" => vi <= Len(bands) /\ path = bands[vi]

\* C16: the export sleeps after a batch exactly when records are left: while
\* it sleeps the batch before is folded and is not the last; a batch under
\* way was preceded by one sleep per earlier batch; an export of n > 0
\* records in batches of b returns after ceil(n / b) - 1 sleeps, none of them
\* after the last batch; an export of no record never sleeps.
C16_InterBatchCooldown ==
    /\ opc = "cooldown" =>
          /\ cooldowns = Len(batches)
          /\ LastBatch[2] < stats.total
          /\ \A t \in DOMAIN tasks : tasks[t].st = "done"
          /\ \A j \in 1..LastBatch[2] : Len(counted[j]) = 1
    /\ opc = "prepare" => cooldowns = Len(batches)
    /\ opc = "gather" => cooldowns = Len(batches) - 1
    /\ (opc = "returned" /\ stats.total > 0) =>
          /\ cooldowns = Len(batches) - 1
          /\ cooldowns = ((stats.total + batch_size - 1) \div batch_size) - 1
          /\ LastBatch[2] = stats.total
    /\ (opc = "returned" /\ stats.total = 0) => cooldowns = 0

\* an export of three records in batches of two returned after one sleep
C16_Witness ==
    /\ opc = "returned"
    /\ stats.total = 3
    /\ batch_size = 2
    /\ cooldowns = 1

\* C17: from the creation of a batch's semaphore on, the permits available
\* and the fetches under way add up to max_concurrent: a fetch is under way
\* only with a permit taken, and the permit is back once the fetch returned,
\* whatever it returned; outside gather every permit is available.
C17_PermitAccounting ==
    batches # <<>> =>
        /\ semaphore >= 0
        /\ semaphore + Cardinality(InFlight) = max_concurrent
        /\ opc # "gather" => semaphore = max_concurrent

\* a fetch returned False after its attempts and gave its permit back while
\* another fetch of the batch holds one
C17_Witness ==
    /\ opc = "gather"
    /\ Cardinality(InFlight) = 1
    /\ semaphore = max_concurrent - 1
    /\ \E t \in DOMAIN tasks :
          /\ tasks[t].st = "done"
          /\ tasks[t].result = "False"
          /\ tasks[t].attempts = max_retries

\* the date part the three-way priority gives the record at 1-based listing
\* position j: the timestamp's day, else the day of an 8-digit token of the
\* identifier, else image_{j - 1}
DatePartByPriority(j) ==
    LET properties == images_info[j].properties
        token == DateFromParts(Split(images_info[j].id, "_"))
    IN  IF "system:time_start" \in DOMAIN properties
        THEN Strftime(FromTimestamp(properties["system:time_start"]))
        ELSE IF token # NoDate
             THEN Strftime(token)
             ELSE <<"i", "m", "a", "g", "e", "_">> \o Decimal(j - 1)

\* C18: the path of every dispatched task carries the date part the priority
\* gives its record; a record without a timestamp whose identifier holds a
\* valid 8-digit date token is never named image_{n}.
C18_DatePriority ==
    \A t \in DOMAIN tasks :
        LET j == tasks[t].idx
        IN  tasks[t].download_path =
                <<path, Sanitize(ModelScenario(images_info[j].properties)
                                     \o <<"_">> \o DatePartByPriority(j)
                                     \o <<".", "t", "i", "f">>)>>

\* the listing positions counted successful: fetched with True, or skipped
Succeeded ==
    {j \in Positions : counted[j] \in {<<"successful">>, <<"skipped">>}}

\* the non-empty files under the destination directory
NonEmptyFiles == {p \in DOMAIN fs : p[1] = path /\ fs[p] > 0}

\* C19: when an export returns, every record counted successful has its own
\* non-empty file, and the non-empty files under the destination are at
\* least as many as stats.successful.
C19_OneFilePerSuccess ==
    opc = "returned" =>
        /\ \A j \in Succeeded :
              PlannedPath(path, images_info, j) \in NonEmptyFiles
        /\ \A i, j \in Succeeded :
              i # j => PlannedPath(path, images_info, i)
                           # PlannedPath(path, images_info, j)
        /\ Cardinality(NonEmptyFiles) >= stats.successful

\* the paths whose file is created, removed or resized by the step
Touched ==
    {p \in DOMAIN fs \cup DOMAIN fs' :
        p \notin DOMAIN fs \/ p \notin DOMAIN fs' \/ fs'[p] # fs[p]}

\* C20: a step of a fetch creates, truncates or writes no file but the one
\* at the task's own download_path, every other path keeping its file and
\* its size; the step that ends an attempt on a status other than 200 changes
\* no file at all.
C20_FetcherFrame ==
    [][/\ \A p \in Touched :
             \E t \in DOMAIN tasks :
                 /\ tasks'[t] # tasks[t]
                 /\ tasks[t].download_path = p
       /\ \A t \in DOMAIN tasks :
             (/\ tasks[t].st = "get"
              /\ tasks'[t].last = "status") => fs' = fs]_vars

\* an attempt ended on a status other than 200 with a file of an earlier
\* run at the task's path and a file at another path
C20_Witness ==
    /\ opc = "gather"
    /\ \E t \in DOMAIN tasks :
          /\ tasks[t].last = "status"
          /\ tasks[t].download_path \in DOMAIN fs
          /\ fs[tasks[t].download_path] = MinValidSize
          /\ \E p \in DOMAIN fs : p # tasks[t].download_path /\ fs[p] > 0

\* C21: the step in which a task's metadata or download URL fails to resolve
\* takes the task from waiting to returned with False, changes no file and
\* keeps no permit; such a task has issued no request and slept no backoff,
\* it is never resumed, and the fold of its batch counts its record failed,
\* once.
C21_ResolveFailure ==
    [][\A t \in DOMAIN tasks' :
          tasks'[t].last = "resolve" =>
              /\ tasks'[t].st = "done"
              /\ tasks'[t].result = "False"
              /\ tasks'[t].attempts = 0
              /\ tasks'[t].retry = 0
              /\ tasks'[t].delays = <<>>
              /\ returns'[tasks'[t].idx] = <<"False">>
              /\ opc' \in {"cooldown", "returned"} =>
                    counted'[tasks'[t].idx] = <<"failed">>
              /\ batches' = batches =>
                    /\ t \in DOMAIN tasks
                    /\ \/ tasks[t] = tasks'[t]
                       \/ /\ tasks[t].st = "pending"
                          /\ fs' = fs
                          /\ semaphore' = semaphore]_vars

\* a record whose resolve failed is counted failed, with the file an earlier
\* run left at its path still there at its size
C21_Witness ==
    /\ opc = "returned"
    /\ run = 2
    /\ \E t \in DOMAIN tasks :
          /\ tasks[t].last = "resolve"
          /\ counted[tasks[t].idx] = <<"failed">>
          /\ stats.failed = 1
          /\ tasks[t].download_path \in DOMAIN fs
          /\ fs[tasks[t].download_path] = MinValidSize

==========================================================================
